---------------------------- MODULE Spec2Model ----------------------------
(***************************************************************************)
(* Model of the two pieces of original logic of the repository:            *)
(*                                                                         *)
(*   src/webpack.config.cjs      requestToExternal, templateContent        *)
(*   src/packages/story-editor/src/components/publishModal/mainContent/    *)
(*       formLabel.js            FormLabel                                 *)
(*                                                                         *)
(* All three are synchronous functions without module state, so a          *)
(* behaviour is one invocation: the initial state holds the arguments of   *)
(* a pending call, the action runs the whole function body and stores its  *)
(* completion.  Spec covers the build-time module (webpack.config.cjs),    *)
(* SpecLabel the run-time module (formLabel.js).                           *)
(*                                                                         *)
(* JavaScript strings on which the code does character arithmetic (the     *)
(* asset paths, the chunk names, the JSON text) are sequences of           *)
(* one-character strings; strings that are only compared (module           *)
(* requests, field identifiers) are TLA+ strings.                          *)
(***************************************************************************)
EXTENDS Integers, Sequences, FiniteSets

VARIABLES
    call,               \* the function invoked: its name
    completion,         \* "pending" before the body ran, then "normal" or "throw"
    ret,                \* the value returned (or thrown)
    request,            \* requestToExternal's parameter
    htmlWebpackPlugin,  \* templateContent's parameter (destructured)
    props,              \* FormLabel's parameter (destructured: htmlFor, copy)
    REQUIRED_INPUTS     \* the array formLabel.js imports from '../constants'

vars == <<call, completion, ret, request, htmlWebpackPlugin, props, REQUIRED_INPUTS>>

(***************************************************************************)
(* Bounds of the model.                                                    *)
(***************************************************************************)
MaxJs == 2          \* longest htmlWebpackPlugin.files.js
MaxCss == 2         \* longest htmlWebpackPlugin.files.css
MaxRequired == 2    \* longest REQUIRED_INPUTS

\* The JavaScript value undefined, and the value of a parameter of a
\* function that is not the one invoked.
undefined == "undefined"
NotPassed == "<not passed>"

SeqsUpTo(S, n) == UNION {[1..k -> S] : k \in 0..n}

Range(s) == {s[i] : i \in DOMAIN s}

(***************************************************************************)
(* JavaScript built-ins the code calls.  Indices are 0-based as in         *)
(* JavaScript; the sequences are 1-based.                                  *)
(***************************************************************************)
Min(a, b) == IF a < b THEN a ELSE b
Max(a, b) == IF a > b THEN a ELSE b

\* String.prototype.lastIndexOf(ch): index of the last occurrence, or -1.
lastIndexOf(s, ch) ==
    LET hits == {i \in 1..Len(s) : s[i] = ch}
    IN  IF hits = {} THEN -1
        ELSE (CHOOSE i \in hits : \A j \in hits : j <= i) - 1

\* String.prototype.substr(start) with start >= 0: from start to the end.
substr(s, start) ==
    LET from == Min(start, Len(s))
    IN  [i \in 1..(Len(s) - from) |-> s[from + i]]

\* String.prototype.substring(start, end): both clamped to [0, length],
\* swapped when start > end.
substring(s, start, end) ==
    LET a  == Max(0, Min(start, Len(s)))
        b  == Max(0, Min(end, Len(s)))
        lo == Min(a, b)
        hi == Max(a, b)
    IN  [i \in 1..(hi - lo) |-> s[lo + i]]

\* Array.prototype.indexOf(x): first index with a strictly equal element, or -1.
indexOf(a, x) ==
    LET hits == {i \in DOMAIN a : a[i] = x}
    IN  IF hits = {} THEN -1
        ELSE (CHOOSE i \in hits : \A j \in hits : i <= j) - 1

\* Array.prototype.includes(x).
includes(a, x) == \E i \in DOMAIN a : a[i] = x

\* JSON.stringify of a string: quoted, '"' and '\' escaped.
RECURSIVE JSONquote(_)
JSONquote(s) ==
    IF s = <<>> THEN <<>>
    ELSE (IF Head(s) \in {"\"", "\\"} THEN <<"\\", Head(s)>> ELSE <<Head(s)>>)
         \o JSONquote(Tail(s))

RECURSIVE JSONelements(_)
JSONelements(a) ==
    IF a = <<>> THEN <<>>
    ELSE <<"\"">> \o JSONquote(Head(a)) \o <<"\"">>
         \o (IF Tail(a) = <<>> THEN <<>> ELSE <<",">> \o JSONelements(Tail(a)))

\* JSON.stringify of an array of strings.
JSONstringify(a) == <<"[">> \o JSONelements(a) \o <<"]">>

(***************************************************************************)
(* webpack.config.cjs: requestToExternal                                   *)
(***************************************************************************)
requestToExternal_noServer(req) ==
    LET packages == <<"react", "react-dom">>
    IN  IF includes(packages, req) THEN "false" ELSE undefined

requestToExternal(req) ==
    LET packages == <<"react", "react-dom", "react-dom/server">>
    IN  IF includes(packages, req) THEN "false" ELSE undefined


Requests ==
    {"react", "react-dom", "react-dom/server", "react-dom/client",
     "react/jsx-runtime", "react-dom/server.browser", "lodash",
     "@wordpress/element", ""}

(***************************************************************************)
(* webpack.config.cjs: templateContent                                     *)
(***************************************************************************)
EXT_JS == <<".", "j", "s">>
EXT_CSS == <<".", "c", "s", "s">>

\* const filenameOf = (pathname) => pathname.substr(pathname.lastIndexOf('/') + 1)
filenameOf_firstSlash(pathname) ==
    LET hits == {i \in 1..Len(pathname) : pathname[i] = "/"}
        first == IF hits = {} THEN -1
                 ELSE (CHOOSE i \in hits : \A j \in hits : i <= j) - 1
    IN  substr(pathname, first + 1)

filenameOf(pathname) == substr(pathname, lastIndexOf(pathname, "/") + 1)

\* const chunkName = htmlWebpackPlugin.options.chunks[0]
chunkName(h) == h.options.chunks[1]

\* const omitPrimaryChunk = (f) => f != chunkName
omitPrimaryChunk_prefix(f, primary) ==
    ~(Len(f) >= Len(primary) /\ SubSeq(f, 1, Len(primary)) = primary)

omitPrimaryChunk(f, primary) == f # primary

\* The callbacks given to map: the file name less as many characters as
\* the extension has.
jsMapper(pathname) ==
    LET f == filenameOf(pathname)
    IN  substring(f, 0, Len(f) - Len(EXT_JS))

cssMapper(pathname) ==
    LET f == filenameOf(pathname)
    IN  substring(f, 0, Len(f) - Len(EXT_CSS))

\* s without the later repetitions of its elements.
RECURSIVE Unique(_)
Unique(s) ==
    IF s = <<>> THEN <<>>
    ELSE LET front == Unique(SubSeq(s, 1, Len(s) - 1))
         IN  IF s[Len(s)] \in Range(front) THEN front ELSE Append(front, s[Len(s)])

js_deduplicated(h) ==
    Unique(SelectSeq([i \in DOMAIN h.files.js |-> jsMapper(h.files.js[i])],
                     LAMBDA f : omitPrimaryChunk(f, chunkName(h))))

\* const js = htmlWebpackPlugin.files.js.map(...).filter(omitPrimaryChunk)
\* (map and filter each build a new array, visiting the elements in index
\* order: the function [i |-> ...] and SelectSeq)
js(h) ==
    SelectSeq([i \in DOMAIN h.files.js |-> jsMapper(h.files.js[i])],
              LAMBDA f : omitPrimaryChunk(f, chunkName(h)))

css_readsJs(h) ==
    SelectSeq([i \in DOMAIN h.files.js |-> cssMapper(h.files.js[i])],
              LAMBDA f : omitPrimaryChunk(f, chunkName(h)))

\* const css = htmlWebpackPlugin.files.css.map(...).filter(omitPrimaryChunk)
css(h) ==
    SelectSeq([i \in DOMAIN h.files.css |-> cssMapper(h.files.css[i])],
              LAMBDA f : omitPrimaryChunk(f, chunkName(h)))

templateContent_swapped(h) ==
    [quasis |-> << "<?php return array(\n    'css' => ",
                   ",\n    'js' => ",
                   ");" >>,
     values |-> << JSONstringify(js(h)), JSONstringify(css(h)) >>]

\* The template literal returned: its literal parts (quasis) and the values
\* substituted between them; the string is
\* quasis[1] + values[1] + quasis[2] + values[2] + quasis[3].
templateContent(h) ==
    [quasis |-> << "<?php return array(\n    'css' => ",
                   ",\n    'js' => ",
                   ");" >>,
     values |-> << JSONstringify(css(h)), JSONstringify(js(h)) >>]

\* Asset paths html-webpack-plugin may hand over.  output.filename is
\* '[name].js', chunkFilename '[name]-[chunkhash].js' and the stylesheets go
\* to '../css/[name].css'; the last two of each set lack the extension.
ChunkNames == { <<"m">>, <<"v">>, <<"x">> }

JsPaths ==
    { <<"m", ".", "j", "s">>,
      <<"j", "/", "m", ".", "j", "s">>,
      <<"j", "/", "m", "-", "a", ".", "j", "s">>,
      <<"d", "/", "s", "/", "v", ".", "j", "s">>,
      <<"c", "h", "u", "n", "k">>,
      <<"a">> }

CssPaths ==
    { <<".", ".", "/", "c", "/", "m", ".", "c", "s", "s">>,
      <<".", ".", "/", "c", "/", "v", ".", "c", "s", "s">>,
      <<"m", "-", "a", ".", "c", "s", "s">>,
      <<"a", "b", "c">> }

TemplateParameters ==
    [options : [chunks : {<<c>> : c \in ChunkNames}],
     files   : [js : SeqsUpTo(JsPaths, MaxJs), css : SeqsUpTo(CssPaths, MaxCss)]]

(***************************************************************************)
(* The build-time module: one call of requestToExternal (made by           *)
(* DependencyExtractionWebpackPlugin) or of templateContent (made by       *)
(* HtmlWebpackPlugin).                                                     *)
(***************************************************************************)
Init ==
    /\ completion = "pending"
    /\ ret = undefined
    /\ props = NotPassed
    /\ REQUIRED_INPUTS = <<>>
    /\ \/ /\ call = "requestToExternal"
          /\ request \in Requests
          /\ htmlWebpackPlugin = NotPassed
       \/ /\ call = "templateContent"
          /\ request = NotPassed
          /\ htmlWebpackPlugin \in TemplateParameters

RequestToExternalCall ==
    /\ call = "requestToExternal"
    /\ completion = "pending"
    /\ ret' = requestToExternal(request)
    /\ completion' = "normal"
    /\ UNCHANGED <<call, request, htmlWebpackPlugin, props, REQUIRED_INPUTS>>

\* The body calls only methods that build new values (lastIndexOf, substr,
\* substring, map, filter, JSON.stringify): the parameter object is left
\* as it was passed.
TemplateContentCall ==
    /\ call = "templateContent"
    /\ completion = "pending"
    /\ ret' = templateContent(htmlWebpackPlugin)
    /\ completion' = "normal"
    /\ UNCHANGED <<call, request, htmlWebpackPlugin, props, REQUIRED_INPUTS>>

Next == RequestToExternalCall \/ TemplateContentCall

Spec == Init /\ [][Next]_vars

(***************************************************************************)
(* formLabel.js: FormLabel                                                 *)
(***************************************************************************)
\* Imported values, opaque to this module: the preset sizes and placements
\* of the design system, and the translation __(text, domain) of a text.
XX_SMALL == "THEME_CONSTANTS.TYPOGRAPHY.PRESET_SIZES.XX_SMALL"
X_SMALL == "THEME_CONSTANTS.TYPOGRAPHY.PRESET_SIZES.X_SMALL"
BOTTOM_START == "PLACEMENT.BOTTOM_START"
translate(text, domain) == [text |-> text, domain |-> domain]

\* The components an element is made of, by name.  RequiredHeadline is
\* styled(Headline) with '*' as the content of its &:after; AfterContent is
\* what this module's styles put after an element of the given type.
Tooltip == "Tooltip"
Headline == "Headline"
RequiredHeadline == "RequiredHeadline"
AfterContent(type) == IF type = RequiredHeadline THEN "*" ELSE ""

\* <Type as="label" size={...} htmlFor={htmlFor}>{copy}</Type>
LabelElement(type, size, htmlFor, copy) ==
    [type     |-> type,
     props    |-> [as |-> "label", size |-> size, htmlFor |-> htmlFor],
     children |-> <<copy>>]

\* <Tooltip title={...} placement={...}>{child}</Tooltip>
TooltipElement(title, placement, child) ==
    [type     |-> Tooltip,
     props    |-> [title |-> title, placement |-> placement],
     children |-> <<child>>]

FormLabel_indexPositive(required, p) ==
    IF indexOf(required, p.htmlFor) > 0
    THEN TooltipElement(translate("Required", "web-stories"), BOTTOM_START,
                        LabelElement(RequiredHeadline, XX_SMALL, p.htmlFor, p.copy))
    ELSE LabelElement(Headline, XX_SMALL, p.htmlFor, p.copy)

FormLabel_otherSize(required, p) ==
    IF indexOf(required, p.htmlFor) > -1
    THEN TooltipElement(translate("Required", "web-stories"), BOTTOM_START,
                        LabelElement(RequiredHeadline, X_SMALL, p.htmlFor, p.copy))
    ELSE LabelElement(Headline, XX_SMALL, p.htmlFor, p.copy)

\* const FormLabel = ({ htmlFor, copy }) => REQUIRED_INPUTS.indexOf(htmlFor) > -1 ? ... : ...
\* (required is the module's REQUIRED_INPUTS)
FormLabel(required, p) ==
    IF indexOf(required, p.htmlFor) > -1
    THEN TooltipElement(translate("Required", "web-stories"), BOTTOM_START,
                        LabelElement(RequiredHeadline, XX_SMALL, p.htmlFor, p.copy))
    ELSE LabelElement(Headline, XX_SMALL, p.htmlFor, p.copy)

\* Field identifiers and label texts a caller may pass; propTypes declares
\* both as required strings but nothing stops a caller from passing the
\* empty string or leaving one out.
InputKeys == {"story-title", "story-excerpt", "story-slug"}
Identifiers == InputKeys \cup {"", undefined}
Copies == {"Story Title", "", undefined}

(***************************************************************************)
(* The run-time module: REQUIRED_INPUTS is whatever '../constants'         *)
(* exports (an array of field identifiers), fixed when the module is       *)
(* loaded; then one render of FormLabel.                                   *)
(***************************************************************************)
InitLabel ==
    /\ call = "FormLabel"
    /\ completion = "pending"
    /\ ret = undefined
    /\ request = NotPassed
    /\ htmlWebpackPlugin = NotPassed
    /\ REQUIRED_INPUTS \in SeqsUpTo(InputKeys, MaxRequired)
    /\ props \in [htmlFor : Identifiers, copy : Copies]

FormLabelRender ==
    /\ call = "FormLabel"
    /\ completion = "pending"
    /\ ret' = FormLabel(REQUIRED_INPUTS, props)
    /\ completion' = "normal"
    /\ UNCHANGED <<call, request, htmlWebpackPlugin, props, REQUIRED_INPUTS>>

NextLabel == FormLabelRender

SpecLabel == InitLabel /\ [][NextLabel]_vars

(***************************************************************************)
(* Properties of FormLabel (checked under SpecLabel).                      *)
(***************************************************************************)
Done == completion # "pending"

Rendered == call = "FormLabel" /\ Done

\* h is a member of the REQUIRED_INPUTS set.
IsRequired == props.htmlFor \in Range(REQUIRED_INPUTS)

\* The label element of the output: the output itself, or the one child of
\* the tooltip that wraps it.
LabelOf(e) == IF e.type = Tooltip THEN e.children[1] ELSE e

\* C1: the output carries the required-marker ('*' after the label), wrapped
\* in a Tooltip titled with the translation of "Required" and placed
\* bottom-start, if and only if htmlFor is a member of REQUIRED_INPUTS;
\* otherwise it carries neither the marker nor the tooltip.
C1_MarkerAndTooltipIffRequired ==
    Rendered =>
        /\ IsRequired =>
              /\ ret.type = Tooltip
              /\ ret.props.title = translate("Required", "web-stories")
              /\ ret.props.placement = BOTTOM_START
              /\ Len(ret.children) = 1
              /\ AfterContent(ret.children[1].type) = "*"
        /\ ~IsRequired =>
              /\ ret.type # Tooltip
              /\ AfterContent(ret.type) # "*"

\* A required identifier that is not the first entry of REQUIRED_INPUTS was
\* rendered with its tooltip.
C1_Witness ==
    /\ Rendered
    /\ Len(REQUIRED_INPUTS) = 2
    /\ REQUIRED_INPUTS[1] # props.htmlFor
    /\ REQUIRED_INPUTS[2] = props.htmlFor
    /\ ret.type = Tooltip

\* C2: in both branches the rendered element is a label whose htmlFor is
\* the given identifier, whose content is the given text and whose size is
\* the XX_SMALL preset.
C2_SameLabelInBothBranches ==
    Rendered =>
        /\ LabelOf(ret).props.as = "label"
        /\ LabelOf(ret).props.htmlFor = props.htmlFor
        /\ LabelOf(ret).props.size = XX_SMALL
        /\ LabelOf(ret).children = <<props.copy>>

\* Both branches are taken for the same identifier and text: here the
\* required one, with a non-required identifier also listed.
C2_Witness ==
    /\ Rendered
    /\ IsRequired
    /\ props.htmlFor = "story-excerpt"
    /\ props.copy = "Story Title"
    /\ LabelOf(ret) # ret
    /\ LabelOf(ret).props.htmlFor = "story-excerpt"

\* C7: a missing or empty identifier or text makes the render report
\* InvalidArgument and produce no markup.
C7_InvalidArgumentOnMissing ==
    (/\ Rendered
     /\ \/ props.htmlFor \in {"", undefined}
        \/ props.copy \in {"", undefined})
    => completion = "throw"

(***************************************************************************)
(* Properties of templateContent and requestToExternal (checked under      *)
(* Spec).  The reference notions below are stated on their own, not with   *)
(* the operators that model the code.                                      *)
(***************************************************************************)
Returned == call = "templateContent" /\ Done

EndsWith(p, ext) ==
    /\ Len(p) >= Len(ext)
    /\ \A i \in 1..Len(ext) : p[Len(p) - Len(ext) + i] = ext[i]

\* The substring after the final '/', the whole string when there is none:
\* what follows the position k that is the start or holds a '/' and after
\* which no '/' occurs.
LastSegment(p) ==
    LET k == CHOOSE k \in 0..Len(p) :
                 /\ k = 0 \/ p[k] = "/"
                 /\ \A j \in (k + 1)..Len(p) : p[j] # "/"
    IN  SubSeq(p, k + 1, Len(p))

\* The last segment less its last Len(ext) characters (nothing is left of a
\* segment shorter than that).
Stem(p, ext) ==
    LET seg == LastSegment(p)
    IN  IF Len(seg) <= Len(ext) THEN <<>> ELSE SubSeq(seg, 1, Len(seg) - Len(ext))

\* Reading back a JSON array of strings.
RECURSIVE JSONparseFrom(_, _, _, _, _)
JSONparseFrom(t, i, inString, cur, acc) ==
    IF i > Len(t) THEN [ok |-> FALSE, value |-> <<>>]
    ELSE IF inString
         THEN IF t[i] = "\\" /\ i < Len(t)
                   THEN JSONparseFrom(t, i + 2, TRUE, Append(cur, t[i + 1]), acc)
              ELSE IF t[i] = "\""
                   THEN JSONparseFrom(t, i + 1, FALSE, <<>>, Append(acc, cur))
              ELSE JSONparseFrom(t, i + 1, TRUE, Append(cur, t[i]), acc)
         ELSE IF t[i] = "]" THEN [ok |-> i = Len(t), value |-> acc]
              ELSE IF t[i] = "\"" THEN JSONparseFrom(t, i + 1, TRUE, <<>>, acc)
              ELSE IF t[i] = "," /\ acc # <<>> THEN JSONparseFrom(t, i + 1, FALSE, <<>>, acc)
              ELSE [ok |-> FALSE, value |-> <<>>]

JSONparse(t) ==
    IF Len(t) < 2 \/ t[1] # "[" THEN [ok |-> FALSE, value |-> <<>>]
    ELSE JSONparseFrom(t, 2, FALSE, <<>>, <<>>)

\* The lists the returned manifest holds under 'css' and under 'js'.
CssOut == JSONparse(ret.values[1]).value
JsOut == JSONparse(ret.values[2]).value

Primary == htmlWebpackPlugin.options.chunks[1]
FilesJs == htmlWebpackPlugin.files.js
FilesCss == htmlWebpackPlugin.files.css

\* C3: neither list of the manifest contains the entry chunk name, and only
\* names equal to it are removed: the name of every path with the expected
\* extension that differs from it (for instance by a suffix) is listed.
C3_OnlyPrimaryOmitted ==
    Returned =>
        /\ Primary \notin Range(JsOut)
        /\ Primary \notin Range(CssOut)
        /\ \A i \in DOMAIN FilesJs :
              (EndsWith(FilesJs[i], EXT_JS) /\ Stem(FilesJs[i], EXT_JS) # Primary)
                  => Stem(FilesJs[i], EXT_JS) \in Range(JsOut)
        /\ \A i \in DOMAIN FilesCss :
              (EndsWith(FilesCss[i], EXT_CSS) /\ Stem(FilesCss[i], EXT_CSS) # Primary)
                  => Stem(FilesCss[i], EXT_CSS) \in Range(CssOut)

\* The entry's own script was dropped while a script whose name only starts
\* with the entry's name was kept.
C3_Witness ==
    /\ Returned
    /\ Primary = <<"m">>
    /\ FilesJs = << <<"j", "/", "m", ".", "j", "s">>,
                    <<"j", "/", "m", "-", "a", ".", "j", "s">> >>
    /\ JsOut = << <<"m", "-", "a">> >>

\* C4: for a path that ends in the expected extension, the bare name
\* derived is the substring after the final '/' less exactly the extension
\* (bare name + extension = last segment), whatever directories lead to it;
\* and when every path has its extension, every listed name is such a name.
C4_BareNameIsLastSegmentLessExtension ==
    Returned =>
        /\ \A i \in DOMAIN FilesJs :
              EndsWith(FilesJs[i], EXT_JS)
                  => jsMapper(FilesJs[i]) \o EXT_JS = LastSegment(FilesJs[i])
        /\ \A i \in DOMAIN FilesCss :
              EndsWith(FilesCss[i], EXT_CSS)
                  => cssMapper(FilesCss[i]) \o EXT_CSS = LastSegment(FilesCss[i])
        /\ (\A i \in DOMAIN FilesJs : EndsWith(FilesJs[i], EXT_JS))
              => \A k \in DOMAIN JsOut :
                    \E i \in DOMAIN FilesJs : JsOut[k] \o EXT_JS = LastSegment(FilesJs[i])
        /\ (\A i \in DOMAIN FilesCss : EndsWith(FilesCss[i], EXT_CSS))
              => \A k \in DOMAIN CssOut :
                    \E i \in DOMAIN FilesCss : CssOut[k] \o EXT_CSS = LastSegment(FilesCss[i])

\* A script two directories deep was listed under its bare name.
C4_Witness ==
    /\ Returned
    /\ Primary = <<"m">>
    /\ FilesJs = << <<"d", "/", "s", "/", "v", ".", "j", "s">> >>
    /\ JsOut = << <<"v">> >>

\* The k-th (1-based) of the indices of names that are not the entry's name.
Kept(names, primary) == {i \in DOMAIN names : names[i] # primary}
KthKept(names, primary, k) ==
    CHOOSE i \in Kept(names, primary) :
        Cardinality({j \in Kept(names, primary) : j <= i}) = k

\* out is names with the entries equal to primary deleted and nothing else
\* changed.
IsStableFilter(out, names, primary) ==
    /\ Len(out) = Cardinality(Kept(names, primary))
    /\ \A k \in 1..Len(out) : out[k] = names[KthKept(names, primary, k)]
    /\ primary \notin Range(names) => Len(out) = Len(names)

\* C5: each list of the manifest is the sequence of the bare names of the
\* input paths with the entries equal to the entry chunk name deleted: same
\* relative order, nothing added, nothing deduplicated, same length when
\* the entry name does not occur.
C5_StableFilter ==
    Returned =>
        /\ IsStableFilter(JsOut, [i \in DOMAIN FilesJs |-> Stem(FilesJs[i], EXT_JS)], Primary)
        /\ IsStableFilter(CssOut, [i \in DOMAIN FilesCss |-> Stem(FilesCss[i], EXT_CSS)], Primary)

\* Two different paths with the same bare name were both listed, in order.
C5_Witness ==
    /\ Returned
    /\ Primary = <<"x">>
    /\ FilesJs = << <<"j", "/", "m", ".", "j", "s">>, <<"m", ".", "j", "s">> >>
    /\ JsOut = << <<"m">>, <<"m">> >>

\* C6: a script path that does not end in ".js", or a stylesheet path that
\* does not end in ".css", makes building the manifest raise MalformedInput.
C6_MalformedInputRaises ==
    (/\ Returned
     /\ \/ \E i \in DOMAIN FilesJs : ~EndsWith(FilesJs[i], EXT_JS)
        \/ \E i \in DOMAIN FilesCss : ~EndsWith(FilesCss[i], EXT_CSS))
    => completion = "throw"

\* C8: the manifest has exactly the two named fields 'css' and 'js', in
\* every case, each holding a list (the empty list "[]" when nothing is
\* left, never an omitted field); the css list holds only names derived
\* from the stylesheet paths, the js list only names derived from the
\* script paths.
C8_TwoNamedListFields ==
    Returned =>
        /\ ret.quasis = << "<?php return array(\n    'css' => ",
                           ",\n    'js' => ",
                           ");" >>
        /\ Len(ret.values) = 2
        /\ JSONparse(ret.values[1]).ok
        /\ JSONparse(ret.values[2]).ok
        /\ CssOut = <<>> <=> ret.values[1] = <<"[", "]">>
        /\ JsOut = <<>> <=> ret.values[2] = <<"[", "]">>
        /\ Range(CssOut) \subseteq {Stem(FilesCss[i], EXT_CSS) : i \in DOMAIN FilesCss}
        /\ Range(JsOut) \subseteq {Stem(FilesJs[i], EXT_JS) : i \in DOMAIN FilesJs}

\* Only the primary chunk's files were passed: both fields are there, empty.
C8_Witness ==
    /\ Returned
    /\ Primary = <<"m">>
    /\ FilesJs = << <<"m", ".", "j", "s">> >>
    /\ FilesCss = << <<".", ".", "/", "c", "/", "m", ".", "c", "s", "s">> >>
    /\ ret.values = << <<"[", "]">>, <<"[", "]">> >>

\* The js field is the one any other stylesheet list gives with the same
\* entry name and script list, and the css field the one any other script
\* list gives.  (Holding in every reachable state, this makes each field
\* equal for any two inputs that agree on the entry name and on its list.)
C9_FieldsIndependent ==
    Returned =>
        /\ \A other \in SeqsUpTo(CssPaths, 1) :
              templateContent([htmlWebpackPlugin EXCEPT !.files.css = other]).values[2]
                  = ret.values[2]
        /\ \A other \in SeqsUpTo(JsPaths, 1) :
              templateContent([htmlWebpackPlugin EXCEPT !.files.js = other]).values[1]
                  = ret.values[1]

\* C9: templateContent is a function of (entry chunk name, script list,
\* stylesheet list) alone: the call leaves the lists it was given
\* unchanged, and the two lists are processed independently, the js field
\* not changing with the stylesheet list nor the css field with the script
\* list.
C9_PureAndIndependent ==
    /\ []C9_FieldsIndependent
    /\ [][htmlWebpackPlugin' = htmlWebpackPlugin]_vars

\* A call with both lists non-empty returned, both lists still as passed.
C9_Witness ==
    /\ Returned
    /\ Len(FilesJs) = 2
    /\ Len(FilesCss) = 1
    /\ Len(JsOut) = 2
    /\ Len(CssOut) = 1

\* C10: requestToExternal returns false exactly for 'react', 'react-dom'
\* and 'react-dom/server', and undefined for every other request.
C10_OnlyReactNotExternalized ==
    (call = "requestToExternal" /\ Done) =>
        /\ ret = "false" <=> request \in {"react", "react-dom", "react-dom/server"}
        /\ request \notin {"react", "react-dom", "react-dom/server"} => ret = undefined

\* 'react-dom/server' was kept in the bundle.
C10_Witness ==
    /\ call = "requestToExternal"
    /\ Done
    /\ request = "react-dom/server"
    /\ ret = "false"

=============================================================================
